---- MODULE Spec2Model ----
(***************************************************************************)
(* Model of pgsqm.py: Table objects (a query template plus named           *)
(* dependencies on other Tables), the two renderers sql_with_subqueries    *)
(* and sql_with_cte (built on sql_with_named_deps), and the explicit-stack *)
(* depth-first sort_dependencies.                                          *)
(*                                                                         *)
(* Tables are identified by their object identity (Table.__hash__ and      *)
(* Table.__eq__ use id(self)), modelled as the integers 1..MaxNodes.       *)
(* Composed SQL is a sequence of tokens.                                   *)
(***************************************************************************)
EXTENDS Integers, Sequences, FiniteSets, TLC

\* Number of Table objects allocated by the client.
MaxNodes == 3

\* Total number of named dependencies over all Tables.
MaxEdges == MaxNodes

\* Longest cte_deps list a client passes to sql_with_cte directly.
MaxCte == MaxNodes - 1

\* Depth at which the interpreter stops a recursion (sys.getrecursionlimit(),
\* scaled down; larger than any dependency chain of an acyclic graph).
RecursionLimit == MaxNodes + 2

Nodes == 1..MaxNodes

\* Value of source_tables[n][s] when s is no key of the dict.
NoTable == 0

\* Keys of source_tables, in the iteration order of the dict.
NameOrder == <<"h", "t">>

Names == {NameOrder[i] : i \in 1..Len(NameOrder)}

\* The Table every operation is called on (combine in the script).
table == 1

\* State values of sort_dependencies (0 is the DefaultDict's default).
Unvisited == 0
Pending == 1
Done == 2

VARIABLES
    source_tables,  \* Table.source_tables of every Table
    call,           \* what the client runs: the script, the sort alone, sql_with_cte alone
    pc,             \* position of the client
    error,          \* the exception that ended the run, "" if none
    stack,          \* call stack of sql_with_subqueries
    maxDepth,       \* deepest recursion of sql_with_subqueries so far
    subq,           \* value returned by sql_with_subqueries(table), <<>> before
    state,          \* sort_dependencies: state
    todo,           \* sort_dependencies: todo
    result,         \* sort_dependencies: result
    ret,            \* value returned by sort_dependencies(table), <<>> before
    iters,          \* iterations of the while loop of sort_dependencies
    pushed,         \* how often each Table was pushed by todo += deps
    run,            \* which call of sort_dependencies this is (1 or 2)
    prev,           \* outcome of the first call of sort_dependencies
    cte_deps,       \* argument cte_deps of sql_with_cte
    cte             \* value returned by sql_with_cte(table, cte_deps), <<>> before

vars == <<source_tables, call, pc, error, stack, maxDepth, subq, state, todo,
          result, ret, iters, pushed, run, prev, cte_deps, cte>>

subqVars == <<stack, maxDepth, subq>>
sortVars == <<state, todo, result, ret, iters, pushed>>
runVars == <<run, prev>>
cteVars == <<cte_deps, cte>>

----------------------------------------------------------------------------
(* Graph helpers *)

\* The Tables a Table depends on: set(t.source_tables.values()).
DepsOf(g, n) == {g[n][s] : s \in Names} \ {NoTable}

\* Keys of t.source_tables in iteration order.
KeysOf(g, n) == SelectSeq(NameOrder, LAMBDA s : g[n][s] # NoTable)

EdgeCount(g) == Cardinality({e \in Nodes \X Names : g[e[1]][e[2]] # NoTable})

\* Graphs a client can build. Keys are labels only: a dict with k keys is
\* given the first k keys of NameOrder.
Graphs ==
    {g \in [Nodes -> [Names -> Nodes \cup {NoTable}]] :
        /\ EdgeCount(g) <= MaxEdges
        /\ \A n \in Nodes : \A i \in 2..Len(NameOrder) :
              g[n][NameOrder[i]] # NoTable => g[n][NameOrder[i - 1]] # NoTable}

RECURSIVE ReachAcc(_, _, _)
ReachAcc(g, S, k) ==
    IF k = 0 THEN S
    ELSE ReachAcc(g, S \cup UNION {DepsOf(g, n) : n \in S}, k - 1)

\* Tables reachable from n by one or more dependency edges.
ReachFrom(g, n) == ReachAcc(g, DepsOf(g, n), MaxNodes)

\* Some Table reachable from n (or n itself) depends transitively on itself.
CyclicFrom(g, n) == \E m \in ReachFrom(g, n) \cup {n} : m \in ReachFrom(g, m)

\* All orders in which a set can be iterated. The order of a set of Tables
\* follows hash(id(self)) and the insertion history, so every order is possible.
SetOrders(S) ==
    {q \in [1..Cardinality(S) -> S] : \A i, j \in 1..Cardinality(S) : i # j => q[i] # q[j]}

----------------------------------------------------------------------------
(* sort_dependencies *)

\* The filter keeps only the Tables never seen: "if state[d] == 0".
PendingDeps_OnlyUnvisited(t) == {d \in DepsOf(source_tables, t) : state[d] = Unvisited}

\* deps = {d for d in t.source_tables.values() if state[d] != Done}
PendingDeps(t) == {d \in DepsOf(source_tables, t) : state[d] # Done}

\* The assert is skipped (as under python -O).
FirstPending_NeverFails(order) == 0

\* Position of the first d of the iteration that fails the assert, 0 if none.
FirstPending(order) ==
    IF \E i \in 1..Len(order) : state[order[i]] = Pending
    THEN CHOOSE i \in 1..Len(order) :
            /\ state[order[i]] = Pending
            /\ \A j \in 1..(i - 1) : state[order[j]] # Pending
    ELSE 0

\* sort_dependencies is entered: its locals are initialised.
EnterSort ==
    /\ pc = "call_sort"
    /\ state' = [n \in Nodes |-> Unvisited]
    /\ todo' = <<table>>
    /\ result' = <<>>
    /\ ret' = <<>>
    /\ iters' = 0
    /\ pushed' = [n \in Nodes |-> 0]
    /\ pc' = "in_sort"
    /\ UNCHANGED <<source_tables, call, error, subqVars, runVars, cteVars>>

\* One iteration of "while todo:".
SortIter ==
    /\ pc = "in_sort"
    /\ todo # <<>>
    /\ LET t == todo[Len(todo)]
           popped == SubSeq(todo, 1, Len(todo) - 1)
           deps == PendingDeps(t)
       IN  /\ iters' = iters + 1
           /\ IF deps = {}
              THEN /\ result' = Append(result, t)
                   /\ state' = [state EXCEPT ![t] = Done]
                   /\ todo' = popped
                   /\ UNCHANGED <<pc, error, pushed>>
              ELSE \E order \in SetOrders(deps) :
                     LET bad == FirstPending(order)
                     IN  IF bad # 0
                         THEN /\ state' = [n \in Nodes |->
                                    IF \E j \in 1..(bad - 1) : order[j] = n
                                    THEN Pending ELSE state[n]]
                              /\ todo' = Append(popped, t)
                              /\ pc' = "raised"
                              /\ error' = "Circular Table dependency"
                              /\ UNCHANGED <<result, pushed>>
                         ELSE /\ state' = [n \in Nodes |->
                                    IF n \in deps THEN Pending ELSE state[n]]
                              /\ todo' = Append(popped, t) \o order
                              /\ pushed' = [n \in Nodes |->
                                    IF n \in deps THEN pushed[n] + 1 ELSE pushed[n]]
                              /\ UNCHANGED <<pc, error, result>>
    /\ UNCHANGED <<source_tables, call, ret, subqVars, runVars, cteVars>>

\* The loop ends: return result.
SortReturn ==
    /\ pc = "in_sort"
    /\ todo = <<>>
    /\ ret' = result
    /\ pc' = "sorted"
    /\ UNCHANGED <<source_tables, call, error, state, todo, result, iters, pushed,
                   subqVars, runVars, cteVars>>

\* The client calls sort_dependencies(table) a second time.
SortAgain ==
    /\ call = "sort_dependencies"
    /\ run = 1
    /\ pc \in {"sorted", "raised"}
    /\ prev' = [error |-> error, ret |-> ret]
    /\ run' = 2
    /\ error' = ""
    /\ pc' = "call_sort"
    /\ UNCHANGED <<source_tables, call, subqVars, sortVars, cteVars>>

----------------------------------------------------------------------------
(* Composed SQL: sequences of tokens *)

SQL(s) == [kind |-> "SQL", text |-> s, num |-> 0]
Identifier(s) == [kind |-> "Identifier", text |-> s, num |-> 0]
Placeholder(s) == [kind |-> "Placeholder", text |-> s, num |-> 0]

\* Identifier("_cte%d" % i)
CteIdentifier(i) == [kind |-> "Identifier", text |-> "_cte", num |-> i]

\* The literal text of the template of Table n (distinct Tables are told apart
\* by identity, also when their text is the same).
TemplateText(n) == [kind |-> "SQL", text |-> "template", num |-> n]

\* Table.sql: the text of the Table, a placeholder {c} for the extra value and
\* one placeholder per key of source_tables, as in hund, thou and combine.
\* The key of the extra value is no key of source_tables (format(**a, **b)
\* with a common key is a TypeError before anything is rendered).
Template(n) ==
    LET keys == KeysOf(source_tables, n)
    IN  <<TemplateText(n), Placeholder("c")>> \o [i \in 1..Len(keys) |-> Placeholder(keys[i])]

\* args = {"c": Identifier("a")}
kwargs == "c" :> <<Identifier("a")>>

\* What a failed deps[t] lookup leaves in place of a fragment.
KeyError == <<[kind |-> "KeyError", text |-> "", num |-> 0]>>

\* SQL.format(**args): every placeholder is replaced by its argument.
RECURSIVE Format(_, _)
Format(tpl, args) ==
    IF tpl = <<>> THEN <<>>
    ELSE (IF Head(tpl).kind = "Placeholder"
          THEN args[Head(tpl).text]
          ELSE <<Head(tpl)>>) \o Format(Tail(tpl), args)

----------------------------------------------------------------------------
(* sql_with_subqueries: the recursion, one frame per call *)

\* A call sql_with_subqueries(n): the keys still to render, the rendered ones.
Frame(n) == [table |-> n, keys |-> KeysOf(source_tables, n), args |-> <<>>]

\* The subquery is not parenthesised.
SubqueryArg_NoParentheses(frag, s) == frag \o <<SQL(" AS "), Identifier(s)>>

\* Composed([SQL("("), sql_with_subqueries(t), SQL(") AS "), Identifier(s)])
SubqueryArg(frag, s) == <<SQL("(")>> \o frag \o <<SQL(") AS "), Identifier(s)>>

\* Line 85 of the script: sql_with_subqueries(combine, **args).
EnterSubqueries ==
    /\ pc = "call_subqueries"
    /\ stack' = <<Frame(table)>>
    /\ maxDepth' = 1
    /\ pc' = "in_subqueries"
    /\ UNCHANGED <<source_tables, call, error, subq, sortVars, runVars, cteVars>>

\* The dict comprehension reaches its next item (s, t): the recursive call.
SubqCall ==
    /\ pc = "in_subqueries"
    /\ stack # <<>>
    /\ LET top == stack[Len(stack)]
       IN  /\ top.keys # <<>>
           /\ IF Len(stack) >= RecursionLimit
              THEN /\ pc' = "raised"
                   /\ error' = "RecursionError"
                   /\ stack' = <<>>
                   /\ UNCHANGED maxDepth
              ELSE /\ stack' = Append(stack, Frame(source_tables[top.table][Head(top.keys)]))
                   /\ maxDepth' = IF Len(stack) + 1 > maxDepth THEN Len(stack) + 1 ELSE maxDepth
                   /\ UNCHANGED <<pc, error>>
    /\ UNCHANGED <<source_tables, call, subq, sortVars, runVars, cteVars>>

\* All items are rendered: table.sql.format(...) and return to the caller.
SubqReturn ==
    /\ pc = "in_subqueries"
    /\ stack # <<>>
    /\ LET top == stack[Len(stack)]
           frag == Format(Template(top.table), top.args @@ kwargs)
       IN  /\ top.keys = <<>>
           /\ IF Len(stack) = 1
              THEN /\ subq' = frag
                   /\ stack' = <<>>
                   /\ pc' = "call_sort"
              ELSE LET parent == stack[Len(stack) - 1]
                       s == Head(parent.keys)
                   IN  /\ stack' = Append(SubSeq(stack, 1, Len(stack) - 2),
                                      [parent EXCEPT !.keys = Tail(parent.keys),
                                                     !.args = @ @@ (s :> SubqueryArg(frag, s))])
                       /\ UNCHANGED <<subq, pc>>
    /\ UNCHANGED <<source_tables, call, error, maxDepth, sortVars, runVars, cteVars>>

----------------------------------------------------------------------------
(* sql_with_named_deps and sql_with_cte *)

\* A missing alias is replaced by a default: deps.get(t, Identifier("_cte0")).
sql_with_named_deps_DefaultAlias(t, deps) ==
    Format(Template(t),
           [s \in {x \in Names : source_tables[t][x] # NoTable} |->
               <<IF source_tables[t][s] \in DOMAIN deps
                 THEN deps[source_tables[t][s]] ELSE CteIdentifier(0),
                 SQL(" AS "), Identifier(s)>>] @@ kwargs)

\* sql_with_named_deps(t, deps, **kwargs); deps maps Tables to Identifiers.
sql_with_named_deps(t, deps) ==
    IF \E d \in DepsOf(source_tables, t) : d \notin DOMAIN deps
    THEN KeyError
    ELSE Format(Template(t),
                [s \in {x \in Names : source_tables[t][x] # NoTable} |->
                    <<deps[source_tables[t][s]], SQL(" AS "), Identifier(s)>>] @@ kwargs)

\* The entries are emitted in reverse order.
RECURSIVE CteKeys_Reversed(_)
CteKeys_Reversed(deps) ==
    IF deps = <<>> THEN <<>>
    ELSE LET rest == CteKeys_Reversed(Tail(deps))
         IN  IF \E i \in 1..Len(rest) : rest[i] = Head(deps) THEN rest ELSE Append(rest, Head(deps))

\* Keys of the dict built from enumerate(cte_deps), in insertion order.
RECURSIVE CteKeys(_)
CteKeys(deps) ==
    IF deps = <<>> THEN <<>>
    ELSE LET front == CteKeys(SubSeq(deps, 1, Len(deps) - 1))
             last == deps[Len(deps)]
         IN  IF \E i \in 1..Len(front) : front[i] = last THEN front ELSE Append(front, last)

\* names = {t: Identifier("_cte%d" % i) for i, t in enumerate(cte_deps)}
CteNames(deps) ==
    [t \in {deps[i] : i \in 1..Len(deps)} |->
        CteIdentifier((CHOOSE i \in 1..Len(deps) :
                          /\ deps[i] = t
                          /\ \A j \in (i + 1)..Len(deps) : deps[j] # t) - 1)]

\* Composed([n, SQL(" AS ("), sql_with_named_deps(t, names), SQL(")")])
CteEntry(t, names) ==
    <<names[t], SQL(" AS (")>> \o sql_with_named_deps(t, names) \o <<SQL(")")>>

\* SQL("\n   , ").join(entries)
RECURSIVE Join(_)
Join(entries) ==
    IF entries = <<>> THEN <<>>
    ELSE IF Len(entries) = 1 THEN entries[1]
    ELSE entries[1] \o <<SQL("\n   , ")>> \o Join(Tail(entries))

\* sql_with_cte(t, deps, **kwargs)
sql_with_cte(t, deps) ==
    LET names == CteNames(deps)
        keys == CteKeys(deps)
    IN  IF \/ \E i \in 1..Len(keys) : sql_with_named_deps(keys[i], names) = KeyError
           \/ sql_with_named_deps(t, names) = KeyError
        THEN KeyError
        ELSE <<SQL("WITH ")>> \o Join([i \in 1..Len(keys) |-> CteEntry(keys[i], names)])
                 \o <<SQL("\n")>> \o sql_with_named_deps(t, names)

\* Line 86 of the script: the argument sort_dependencies(combine)[:-1].
SliceForCte ==
    /\ call = "script"
    /\ pc = "sorted"
    /\ cte_deps' = SubSeq(ret, 1, Len(ret) - 1)
    /\ pc' = "call_cte"
    /\ UNCHANGED <<source_tables, call, error, cte, subqVars, sortVars, runVars>>

\* The call sql_with_cte(table, cte_deps, **args).
CallCte ==
    /\ pc = "call_cte"
    /\ LET out == sql_with_cte(table, cte_deps)
       IN  IF out = KeyError
           THEN /\ pc' = "raised"
                /\ error' = "KeyError"
                /\ UNCHANGED cte
           ELSE /\ pc' = "done"
                /\ cte' = out
                /\ UNCHANGED error
    /\ UNCHANGED <<source_tables, call, cte_deps, subqVars, sortVars, runVars>>

\* cte_deps lists a client passes to sql_with_cte directly.
CteInputs == UNION {[1..k -> Nodes] : k \in 0..MaxCte}

----------------------------------------------------------------------------

Init ==
    /\ source_tables \in Graphs
    /\ call \in {"script", "sort_dependencies", "sql_with_cte"}
    /\ pc = CASE call = "script" -> "call_subqueries"
              [] call = "sort_dependencies" -> "call_sort"
              [] call = "sql_with_cte" -> "call_cte"
    /\ error = ""
    /\ stack = <<>>
    /\ maxDepth = 0
    /\ subq = <<>>
    /\ state = [n \in Nodes |-> Unvisited]
    /\ todo = <<>>
    /\ result = <<>>
    /\ ret = <<>>
    /\ iters = 0
    /\ pushed = [n \in Nodes |-> 0]
    /\ run = 1
    /\ prev = [error |-> "", ret |-> <<>>]
    /\ cte_deps \in (IF call = "sql_with_cte" THEN CteInputs ELSE {<<>>})
    /\ cte = <<>>

Next ==
    \/ EnterSubqueries
    \/ SubqCall
    \/ SubqReturn
    \/ EnterSort
    \/ SortIter
    \/ SortReturn
    \/ SortAgain
    \/ SliceForCte
    \/ CallCte

Spec == Init /\ [][Next]_vars

----------------------------------------------------------------------------
(* Vocabulary of the properties *)

Graph == source_tables

Range(seq) == {seq[i] : i \in 1..Len(seq)}

NoDuplicates(seq) == \A i, j \in 1..Len(seq) : i # j => seq[i] # seq[j]

\* The Tables the operations on table can touch.
Reachable == ReachFrom(Graph, table) \cup {table}

Acyclic == ~CyclicFrom(Graph, table)

\* seq lists every reachable Table once, table last, dependencies first.
IsTopologicalOrder(seq) ==
    /\ seq # <<>>
    /\ Range(seq) = Reachable
    /\ NoDuplicates(seq)
    /\ seq[Len(seq)] = table
    /\ \A i \in 1..Len(seq) : \A d \in DepsOf(Graph, seq[i]) :
          \E j \in 1..(i - 1) : seq[j] = d

SortEnded == pc = "sorted" \/ (pc = "raised" /\ error = "Circular Table dependency")

\* Bound on the iterations of the while loop: every Table is expanded at most
\* once and finished at most once, and one more iteration may fail.
IterationBound == 2 * MaxNodes + 1

----------------------------------------------------------------------------
(* C1: on every acyclic graph sort_dependencies(table) returns, whatever the
   iteration order of the set deps, and the returned list holds every
   reachable Table exactly once, table last, every dependency before its
   dependents. *)
C1_AcyclicIsSorted ==
    Acyclic =>
        /\ error # "Circular Table dependency"
        /\ pc = "sorted" => IsTopologicalOrder(ret)

(* C2: when a Table reachable from table depends transitively on itself,
   sort_dependencies(table) never returns a list: the loop cannot run out of
   work, it stays within its iteration bound, and once it has ended it has
   ended in "Circular Table dependency" with nothing handed back. *)
C2_CycleRaises ==
    (~Acyclic /\ call = "sort_dependencies") =>
        /\ pc # "sorted"
        /\ ret = <<>>
        /\ pc = "in_sort" => (todo # <<>> /\ iters < IterationBound)
        /\ pc = "raised" => error = "Circular Table dependency"

\* A cycle through table itself (table starts Unvisited) has been detected.
C2_Witness ==
    /\ table \in ReachFrom(Graph, table)
    /\ table \notin DepsOf(Graph, table)
    /\ pc = "raised"
    /\ error = "Circular Table dependency"
    /\ ret = <<>>

(* C6: a list returned by sort_dependencies has no Table twice, and no Table
   is pushed by "todo += deps" more than once, also when it is a dependency
   under several keys of one Table or a dependency of several Tables. *)
C6_ListedOnce ==
    /\ \A n \in Nodes : pushed[n] <= 1
    /\ pc = "sorted" => NoDuplicates(ret)

\* A Table held under two keys of table, and one shared by two parents, sorted.
C6_Witness ==
    /\ pc = "sorted"
    /\ \E n \in Nodes \ {table} :
          /\ pushed[n] = 1
          /\ \/ \A s \in Names : Graph[table][s] = n
             \/ Cardinality({m \in Reachable : n \in DepsOf(Graph, m)}) >= 2

(* C7: two calls of sort_dependencies(table) on the same graph, with the same
   iteration order of every source_tables dict, have the same outcome: the
   same list, or both the circular-dependency failure. *)
C7_SameOutcome ==
    (call = "sort_dependencies" /\ run = 2 /\ SortEnded) =>
        (error = prev.error /\ ret = prev.ret)

----------------------------------------------------------------------------
(* Reading a rendered query *)

Count(frag, tok) == Cardinality({i \in 1..Len(frag) : frag[i] = tok})

IsAlias(tok) == tok.kind = "Identifier" /\ tok.text = "_cte"

\* Positions where a CTE entry starts: "_cteN AS (".
Heads(out) == {p \in 1..(Len(out) - 1) : IsAlias(out[p]) /\ out[p + 1] = SQL(" AS (")}

\* Positions where an alias is referenced: "_cteN AS name".
Refs(out) == {p \in 1..(Len(out) - 1) : IsAlias(out[p]) /\ out[p + 1] = SQL(" AS ")}

\* Position of the newline that separates the WITH clause from the final query.
RootStart(out) == CHOOSE p \in 1..Len(out) : out[p] = SQL("\n")

\* Number of CTE entries that start before position p.
EntriesBefore(out, p) == Cardinality({h \in Heads(out) : h < p})

\* The body "(...)" of the CTE entry whose alias is numbered j.
Body(out, j) ==
    LET h == CHOOSE x \in Heads(out) : out[x].num = j
        e == CHOOSE x \in (h + 2)..Len(out) :
                /\ out[x] = SQL(")")
                /\ \A q \in (h + 2)..(x - 1) : out[q] # SQL(")")
    IN  SubSeq(out, h + 2, e - 1)

RootPart(out) == SubSeq(out, RootStart(out) + 1, Len(out))

\* frag with every alias reference replaced by the parenthesised body of the
\* entry that defines the alias, repeatedly.
RECURSIVE Inline(_, _, _)
Inline(out, frag, fuel) ==
    IF frag = <<>> THEN <<>>
    ELSE IF IsAlias(Head(frag)) /\ fuel > 0 /\ Len(frag) >= 2
         THEN <<SQL("(")>> \o Inline(out, Body(out, Head(frag).num), fuel - 1)
                  \o <<SQL(") AS ")>> \o Inline(out, Tail(Tail(frag)), fuel)
         ELSE <<Head(frag)>> \o Inline(out, Tail(frag), fuel)

RECURSIVE SumSeq(_)
SumSeq(q) == IF q = <<>> THEN 0 ELSE Head(q) + SumSeq(Tail(q))

\* Number of named-edge paths from n to m (acyclic graphs).
RECURSIVE PathCount(_, _)
PathCount(n, m) ==
    IF n = m THEN 1
    ELSE LET keys == KeysOf(Graph, n)
         IN  SumSeq([i \in 1..Len(keys) |-> PathCount(Graph[n][keys[i]], m)])

\* Number of Tables on the longest dependency chain that starts at n (acyclic graphs).
RECURSIVE LongestChain(_)
LongestChain(n) ==
    LET below == {LongestChain(d) : d \in DepsOf(Graph, n)}
    IN  IF below = {} THEN 1 ELSE 1 + (CHOOSE x \in below : \A y \in below : y <= x)

\* Tables other than table that occur more than once under table.
SharedTables == {n \in Reachable \ {table} : PathCount(table, n) >= 2}

\* The Table whose rendering holds position p of the CTE rendering.
OwnerAt(out, p) ==
    IF p < RootStart(out) THEN cte_deps[EntriesBefore(out, p)] ELSE table

\* The script has run to its end, or was stopped by an exception.
ScriptEnded == call = "script" /\ pc \in {"done", "raised"}

----------------------------------------------------------------------------
(* C3: a Table shared by several parents (or held under two keys of one
   parent) has its template rendered by sql_with_subqueries(table) once per
   named-edge path from table to it, and by sql_with_cte(table,
   sort_dependencies(table)[:-1]) exactly once, as one CTE entry whose alias is
   the one referenced wherever a parent depends on it. *)
C3_SharedRenderedOnce ==
    (ScriptEnded /\ Acyclic /\ SharedTables # {}) =>
        /\ pc = "done"
        /\ \A n \in SharedTables :
              /\ Count(subq, TemplateText(n)) = PathCount(table, n)
              /\ Count(cte, TemplateText(n)) = 1
              /\ \E h \in Heads(cte) :
                    /\ cte[h + 2] = TemplateText(n)
                    /\ \A p \in Refs(cte) :
                          Graph[OwnerAt(cte, p)][cte[p + 2].text] = n
                              <=> cte[p].num = cte[h].num

(* C4: for cte_deps = sort_dependencies(table)[:-1], sql_with_cte emits one
   CTE entry per Table of cte_deps in that order, the i-th with the alias
   numbered i, then the rendering of table outside any entry; no alias lookup
   fails, every reference names the alias of the Table depended on, and an
   entry references only aliases of earlier entries. *)
C4_EntriesInSortedOrder ==
    /\ call = "script" => error # "KeyError"
    /\ (call = "script" /\ pc = "done") =>
          LET r == RootStart(cte)
          IN  /\ ret = Append(cte_deps, table)
              /\ cte[1] = SQL("WITH ")
              /\ Cardinality(Heads(cte)) = Len(cte_deps)
              /\ \A h \in Heads(cte) :
                    /\ h < r
                    /\ cte[h].num = EntriesBefore(cte, h)
                    /\ cte[h + 2] = TemplateText(cte_deps[cte[h].num + 1])
              /\ cte[r + 1] = TemplateText(table)
              /\ \A p \in (r + 1)..Len(cte) : cte[p] \notin {SQL(" AS ("), SQL(")")}
              /\ Cardinality(Refs(cte)) =
                    SumSeq([i \in 1..Len(ret) |-> Len(KeysOf(Graph, ret[i]))])
              /\ \A p \in Refs(cte) :
                    /\ cte[p].num < Len(cte_deps)
                    /\ cte_deps[cte[p].num + 1] = Graph[OwnerAt(cte, p)][cte[p + 2].text]
                    /\ p < r => cte[p].num < EntriesBefore(cte, p) - 1

\* Three CTE-rendered Tables, one entry referencing an earlier one.
C4_Witness ==
    /\ call = "script"
    /\ pc = "done"
    /\ Len(cte_deps) >= 2
    /\ \E p \in Refs(cte) : p < RootStart(cte)

(* C5: on an acyclic graph without shared Tables both renderings exist, and
   replacing every alias reference of the CTE rendering by the parenthesised
   body of the entry that defines the alias gives exactly the nested-subquery
   rendering. *)
C5_InlinedCteIsNested ==
    (call = "script" /\ Acyclic /\ SharedTables = {}) =>
        /\ error = ""
        /\ pc = "done" => Inline(cte, RootPart(cte), MaxNodes) = subq

\* A chain of three Tables rendered both ways.
C5_Witness ==
    /\ call = "script"
    /\ pc = "done"
    /\ Acyclic
    /\ SharedTables = {}
    /\ LongestChain(table) >= 3
    /\ Inline(cte, RootPart(cte), MaxNodes) = subq

(* C8: sql_with_named_deps(node, alias_of) fails with a KeyError whenever a
   dependency of node has no alias; sql_with_cte(table, cte_deps) fails the
   same way whenever cte_deps omits a dependency of table or of a Table of
   cte_deps, and its lookups succeed when cte_deps holds every Table reachable
   from table other than table. *)
MissingFor(n) == \E d \in DepsOf(Graph, n) : d \notin Range(cte_deps)

Omits == MissingFor(table) \/ \E n \in Range(cte_deps) : MissingFor(n)

CteEnded == call = "sql_with_cte" /\ pc \in {"done", "raised"}

LookupFails ==
    /\ \A n \in Nodes : MissingFor(n) => sql_with_named_deps(n, CteNames(cte_deps)) = KeyError
    /\ (CteEnded /\ Omits) => (pc = "raised" /\ error = "KeyError" /\ cte = <<>>)

C8_SucceedsOnClosure ==
    /\ LookupFails
    /\ (CteEnded /\ (Reachable \ {table}) \subseteq Range(cte_deps)) => pc = "done"

(* C8 amended: the lookups of sql_with_cte succeed exactly when cte_deps holds
   every dependency of table and of every Table of cte_deps, as it does when
   the graph under table is acyclic and cte_deps holds exactly the Tables
   reachable from table other than table. *)
C8_SucceedsWhenClosed ==
    /\ LookupFails
    /\ (CteEnded /\ ~Omits) => (pc = "done" /\ cte # <<>>)
    /\ (CteEnded /\ Acyclic /\ Range(cte_deps) = Reachable \ {table}) => pc = "done"

\* sql_with_cte failed on a dependency of a CTE Table, not of table.
C8_Witness ==
    /\ CteEnded
    /\ ~MissingFor(table)
    /\ \E n \in Range(cte_deps) : MissingFor(n)
    /\ error = "KeyError"

(* C9: a Table without dependencies is rendered as its template with only the
   extra value substituted, by sql_with_subqueries, by sql_with_named_deps
   under any alias mapping, and by sql_with_cte with the empty cte_deps. *)
C9_LeafIsItsTemplate ==
    DepsOf(Graph, table) = {} =>
        /\ subq # <<>> => subq = <<TemplateText(table), Identifier("a")>>
        /\ sql_with_named_deps(table, CteNames(cte_deps))
              = <<TemplateText(table), Identifier("a")>>
        /\ (pc = "done" /\ cte_deps = <<>>) => cte = <<TemplateText(table), Identifier("a")>>

(* C10: every operation ends. The loop of sort_dependencies stays within its
   iteration bound; on an acyclic graph sql_with_subqueries returns with a
   recursion depth equal to the longest dependency chain; on a graph with a
   cycle an operation is stopped by the circular-dependency failure and by
   nothing else, so the recursion never goes deeper than there are Tables. *)
C10_EveryOperationEnds ==
    /\ iters <= IterationBound
    /\ (Acyclic /\ subq # <<>>) => maxDepth = LongestChain(table)
    /\ Len(stack) <= MaxNodes
    /\ (~Acyclic /\ call # "sql_with_cte" /\ pc = "raised")
          => error = "Circular Table dependency"

====
